---- MODULE Spec2Model ----
(***************************************************************************)
(* Emergency department orchestration (src/agent.py, AgentOrchestration):  *)
(* admission into capacity-bounded waiting rooms, priority queue with the  *)
(* 360-minute exception, the orchestration cycle (staff release, end of    *)
(* consultation and transport, room inspection, next consultation) and     *)
(* transfers to units.  Times are integers, in minutes.                    *)
(***************************************************************************)
EXTENDS Integers, Sequences, FiniteSets, TLC

VARIABLES
    horloge,              \* datetime.now(): the wall clock, in minutes
    temps_virtuel,        \* last `temps_virtuel` the caller passed to the cycle
    pat,                  \* the Patient objects constructed so far, by id
    salles,               \* AgentOrchestration.salles
    docteur,              \* AgentOrchestration.docteur
    infirmieres,          \* AgentOrchestration.infirmieres
    aides_soignants,      \* AgentOrchestration.aides_soignants
    unites,               \* AgentOrchestration.unites
    patients_en_attente,  \* AgentOrchestration.patients_en_attente
    patients_transferes,  \* AgentOrchestration.patients_transferes
    violations,           \* AgentOrchestration.violations
    actions,              \* list returned by the last cycle_orchestration
    resultat              \* the last call made by the caller and what it returned

vars == <<horloge, temps_virtuel, pat, salles, docteur, infirmieres,
          aides_soignants, unites, patients_en_attente, patients_transferes,
          violations, actions, resultat>>

\* The department state proper: everything but the clocks and the return values.
etat == <<pat, salles, docteur, infirmieres, aides_soignants, unites,
          patients_en_attente, patients_transferes, violations>>

----------------------------------------------------------------------------
\* Bounds of the model.
MaxPatients == 3
MaxHorloge == 1
MaxViolations == 1
MaxDepassement == 3

\* Program constants.
SeuilException == 360
DureeConsultation == 5
DureeInspection == 5
DureeTransport == 15
DelaiSurveillance == 15

\* None, for a patient reference, a room reference and a timestamp.
AucunPatient == 0
AucuneSalle == 0
AucuneHeure == -1

PatientIds == 1..MaxPatients

Gravites == {"ROUGE", "JAUNE", "VERT", "GRIS"}

\* The patients the callers construct: severity, condition tags, and how long
\* before `horloge` the patient says it arrived (datetime.now(), or
\* datetime.now() - timedelta(...)).
Profils ==
    { [gravite |-> "ROUGE", type_maladie |-> <<"Cardiaque">>, attente |-> 0],
      [gravite |-> "ROUGE", type_maladie |-> <<"rhume">>, attente |-> 0],
      [gravite |-> "JAUNE", type_maladie |-> <<"fracture">>, attente |-> 0],
      [gravite |-> "VERT", type_maladie |-> <<"rhume">>, attente |-> 0],
      [gravite |-> "VERT", type_maladie |-> <<"rhume">>, attente |-> SeuilException],
      [gravite |-> "GRIS", type_maladie |-> <<"rhume">>, attente |-> 0] }

\* The times at which the callers run a cycle.
Instants == {0, 1, 5, 10, 15, 20}

\* The same, for the runs in which the callers also transfer patients themselves.
InstantsCourts == {0, 5, 10}

\* The waits on which priorite_effective is evaluated on its own.
Attentes == (0 - MaxDepassement)..(SeuilException + MaxDepassement)

----------------------------------------------------------------------------
\* Configuration read from the rule provider at construction.
SallesConfig ==
    << [numero |-> 1, capacite |-> 1],
       [numero |-> 2, capacite |-> 1] >>

UnitesConfig ==
    << [nom |-> "SOINS_CRITIQUES", capacite |-> 1, specialites |-> <<>>],
       [nom |-> "CARDIOLOGIE", capacite |-> 1, specialites |-> <<"cardiaque">>],
       [nom |-> "ORTHOPÉDIE", capacite |-> 1, specialites |-> <<"fracture">>] >>

InfirmieresConfig == << [nom |-> "Infirmiere 1", type |-> "FIXE"] >>

AidesConfig == << [nom |-> "Aide 1", type |-> "MOBILE"] >>

\* regles_speciales: GRIS goes home, ROUGE falls back to critical care.
RegleGrisTransfert == "MAISON"
RegleRougeTransfert == "SOINS_CRITIQUES"

\* The unit _suggerer_unite_transfert falls back to, written in the code.
UniteParDefaut == "ORTHOPÉDIE"

\* Unit names a caller may pass to transferer_patient.
NomsUnites == {"CARDIOLOGIE", "INCONNUE"}

----------------------------------------------------------------------------
\* Sequence helpers (list membership, list.remove).
Dans(s, x) == \E i \in DOMAIN s : s[i] = x

RECURSIVE RetirerPremier(_, _)
RetirerPremier(s, x) ==
    IF s = <<>> THEN <<>>
    ELSE IF Head(s) = x THEN Tail(s)
    ELSE <<Head(s)>> \o RetirerPremier(Tail(s), x)

PersonnelLibre ==
    [statut |-> "DISPONIBLE", patient_en_charge |-> AucunPatient,
     fin_activite |-> AucuneHeure]

NouveauPatient(g, tm, h) ==
    [gravite |-> g, type_maladie |-> tm, heure_arrivee |-> h,
     statut |-> "EN_ATTENTE", salle |-> AucuneSalle]

----------------------------------------------------------------------------
InitEtat ==
    /\ horloge = 0
    /\ temps_virtuel = 0
    /\ pat = << >>
    /\ salles = [i \in DOMAIN SallesConfig |->
                    [numero |-> SallesConfig[i].numero,
                     capacite |-> SallesConfig[i].capacite,
                     patients |-> <<>>,
                     derniere_surveillance |-> 0]]
    /\ docteur = PersonnelLibre
    /\ infirmieres = [i \in DOMAIN InfirmieresConfig |-> PersonnelLibre]
    /\ aides_soignants = [i \in DOMAIN AidesConfig |-> PersonnelLibre]
    /\ unites = [i \in DOMAIN UnitesConfig |->
                    [nom |-> UnitesConfig[i].nom,
                     capacite |-> UnitesConfig[i].capacite,
                     patients_actuels |-> 0,
                     specialites |-> UnitesConfig[i].specialites]]
    /\ patients_en_attente = <<>>
    /\ patients_transferes = <<>>
    /\ violations = <<>>
    /\ actions = <<>>

Init ==
    /\ InitEtat
    /\ resultat = [op |-> "init", patient |-> AucunPatient, code |-> "OK"]

----------------------------------------------------------------------------
\* Patient.temps_attente_minutes: measured against the wall clock.
temps_attente_minutes(p) == horloge - pat[p].heure_arrivee

\* A plausible slip: the exception already applies at the threshold.
priorite_effective_seuil_inclus(g, attente) ==
    IF g = "ROUGE" THEN 1
    ELSE IF g = "VERT" /\ attente >= SeuilException THEN 2
    ELSE IF g = "JAUNE" THEN 3
    ELSE IF g = "VERT" THEN 4
    ELSE 5

\* Patient.priorite_effective, as a function of the severity and the wait.
priorite_effective(g, attente) ==
    IF g = "ROUGE" THEN 1
    ELSE IF g = "VERT" /\ attente > SeuilException THEN 2
    ELSE IF g = "JAUNE" THEN 3
    ELSE IF g = "VERT" THEN 4
    ELSE 5

Priorite(p) == priorite_effective(pat[p].gravite, temps_attente_minutes(p))

\* The sort key of calculer_file_priorite, and the order of Python tuples.
CleTri == [p \in DOMAIN pat |-> <<Priorite(p), pat[p].heure_arrivee>>]

\* A plausible slip: the arrival time left out of the key.
CleInf_priorite_seule(a, b) == a[1] < b[1]

CleInf(a, b) == a[1] < b[1] \/ (a[1] = b[1] /\ a[2] < b[2])

\* sorted() is stable: an element goes after the elements whose key is not greater.
RECURSIVE Inserer(_, _, _)
Inserer(s, p, cle) ==
    IF s = <<>> THEN <<p>>
    ELSE IF CleInf(cle[p], cle[Head(s)]) THEN <<p>> \o s
    ELSE <<Head(s)>> \o Inserer(Tail(s), p, cle)

\* sorted(s, key = cle)
RECURSIVE TriStable(_, _)
TriStable(s, cle) ==
    IF s = <<>> THEN <<>>
    ELSE Inserer(TriStable(SubSeq(s, 1, Len(s) - 1), cle), s[Len(s)], cle)

calculer_file_priorite == TriStable(patients_en_attente, CleTri)

\* A plausible slip: the tail of the queue instead of its head.
selectionner_dernier_patient(attente) ==
    LET file == TriStable(attente, CleTri)
    IN IF file # <<>> THEN file[Len(file)] ELSE AucunPatient

\* A plausible slip: the index of the head taken as 1 in a list counted from 0.
selectionner_second_patient(attente) ==
    LET file == TriStable(attente, CleTri)
    IN IF Len(file) > 1 THEN file[2] ELSE AucunPatient

\* selectionner_prochain_patient, on the waiting list `attente`
selectionner_prochain_patient(attente) ==
    LET file == TriStable(attente, CleTri)
    IN IF file # <<>> THEN file[1] ELSE AucunPatient

----------------------------------------------------------------------------
\* SalleAttente
est_pleine(salle) == Len(salle.patients) >= salle.capacite

\* A plausible slip: off by one.
a_de_la_place_inclus(salle) == Len(salle.patients) <= salle.capacite

a_de_la_place(salle) == Len(salle.patients) < salle.capacite

\* ajouter_patient on the room (the patient's `salle` field is set by the caller below).
ajouter_patient(salle, p) ==
    IF est_pleine(salle) THEN salle
    ELSE [salle EXCEPT !.patients = Append(@, p)]

\* A plausible slip: the room gives up its first patient, whoever is asked for.
retirer_patient_en_tete(salle, p) ==
    IF salle.patients # <<>>
    THEN [salle EXCEPT !.patients = Tail(@)]
    ELSE salle

retirer_patient(salle, p) ==
    IF Dans(salle.patients, p)
    THEN [salle EXCEPT !.patients = RetirerPremier(@, p)]
    ELSE salle

\* A plausible slip: the rooms scanned from the last one.
DerniereSalleLibre(ss) ==
    IF \E i \in DOMAIN ss : a_de_la_place(ss[i])
    THEN CHOOSE i \in DOMAIN ss :
            /\ a_de_la_place(ss[i])
            /\ \A j \in (i + 1)..Len(ss) : ~a_de_la_place(ss[j])
    ELSE 0

\* First room, in configured order, with a free place; 0 when there is none.
PremiereSalleLibre(ss) ==
    IF \E i \in DOMAIN ss : a_de_la_place(ss[i])
    THEN CHOOSE i \in DOMAIN ss :
            /\ a_de_la_place(ss[i])
            /\ \A j \in 1..(i - 1) : ~a_de_la_place(ss[j])
    ELSE 0

\* A plausible slip: the patient put in the first room, no capacity check.
accueillir_patient_sans_controle(p, rec) ==
    /\ salles' = [salles EXCEPT ![1] = [@ EXCEPT !.patients = Append(@, p)]]
    /\ pat' = (p :> [rec EXCEPT !.salle = salles[1].numero]) @@ pat
    /\ patients_en_attente' = Append(patients_en_attente, p)
    /\ violations' = violations
    /\ resultat' = [op |-> "accueillir", patient |-> p, code |-> "OK"]

\* A plausible slip: a rejected patient is queued all the same.
accueillir_patient_file_auto(p, rec) ==
    LET s == PremiereSalleLibre(salles) IN
    IF s # 0
    THEN /\ salles' = [salles EXCEPT ![s] = ajouter_patient(@, p)]
         /\ pat' = (p :> [rec EXCEPT !.salle = salles[s].numero]) @@ pat
         /\ patients_en_attente' = Append(patients_en_attente, p)
         /\ violations' = violations
         /\ resultat' = [op |-> "accueillir", patient |-> p, code |-> "OK"]
    ELSE /\ Len(violations) < MaxViolations
         /\ violations' = Append(violations,
                [type |-> "SALLE_PLEINE", timestamp |-> horloge, patient_id |-> p])
         /\ pat' = (p :> rec) @@ pat
         /\ patients_en_attente' = Append(patients_en_attente, p)
         /\ UNCHANGED salles
         /\ resultat' = [op |-> "accueillir", patient |-> p, code |-> "ROOM_FULL"]

\* AgentOrchestration.accueillir_patient(patient), `rec` being the patient object.
accueillir_patient(p, rec) ==
    LET s == PremiereSalleLibre(salles) IN
    IF s # 0
    THEN /\ salles' = [salles EXCEPT ![s] = ajouter_patient(@, p)]
         /\ pat' = (p :> [rec EXCEPT !.salle = IF est_pleine(salles[s]) THEN @
                                                ELSE salles[s].numero]) @@ pat
         /\ patients_en_attente' = Append(patients_en_attente, p)
         /\ violations' = violations
         /\ resultat' = [op |-> "accueillir", patient |-> p, code |-> "OK"]
    ELSE /\ Len(violations) < MaxViolations
         /\ violations' = Append(violations,
                [type |-> "SALLE_PLEINE", timestamp |-> horloge, patient_id |-> p])
         /\ pat' = (p :> rec) @@ pat
         /\ UNCHANGED <<salles, patients_en_attente>>
         /\ resultat' = [op |-> "accueillir", patient |-> p, code |-> "ROOM_FULL"]

\* A caller constructs a patient and submits it; the callers number the
\* patients they construct in sequence (PMASSE001, AFFLUX01, ...).
Accueillir(p) ==
    /\ p \notin DOMAIN pat
    /\ \A q \in 1..(p - 1) : q \in DOMAIN pat
    /\ \E pr \in Profils :
          accueillir_patient(p, NouveauPatient(pr.gravite, pr.type_maladie,
                                               horloge - pr.attente))
    /\ UNCHANGED <<horloge, temps_virtuel, docteur, infirmieres, aides_soignants,
                   unites, patients_transferes, actions>>

\* A patient the department does not hold: in no room and not in the waiting set.
Refuse(p) ==
    /\ p \in DOMAIN pat
    /\ ~Dans(patients_en_attente, p)
    /\ \A i \in DOMAIN salles : ~Dans(salles[i].patients, p)
    /\ pat[p].statut = "EN_ATTENTE"

\* The caller resubmits a patient that was rejected.
Resoumettre(p) ==
    /\ Refuse(p)
    /\ accueillir_patient(p, pat[p])
    /\ UNCHANGED <<horloge, temps_virtuel, docteur, infirmieres, aides_soignants,
                   unites, patients_transferes, actions>>

\* SalleAttente.retirer_patient(patient) called on room s.
Retirer(s, p) ==
    /\ p \in DOMAIN pat
    /\ salles' = [salles EXCEPT ![s] = retirer_patient(@, p)]
    /\ pat' = IF Dans(salles[s].patients, p)
              THEN [pat EXCEPT ![p].salle = AucuneSalle]
              ELSE pat
    /\ resultat' = [op |-> "retirer", patient |-> p, code |-> "OK"]
    /\ UNCHANGED <<horloge, temps_virtuel, docteur, infirmieres, aides_soignants,
                   unites, patients_en_attente, patients_transferes, violations,
                   actions>>

\* The wall clock advances by one minute.
Horloge ==
    /\ horloge < MaxHorloge
    /\ horloge' = horloge + 1
    /\ UNCHANGED <<temps_virtuel, pat, salles, docteur, infirmieres,
                   aides_soignants, unites, patients_en_attente,
                   patients_transferes, violations, actions, resultat>>

----------------------------------------------------------------------------
\* Unite
\* A plausible slip: off by one.
a_de_la_place_unite_inclus(unite) == unite.patients_actuels <= unite.capacite

a_de_la_place_unite(unite) == unite.patients_actuels < unite.capacite

\* A plausible slip: the unit accepts without counting the patient.
accepter_patient_sans_compte(unite) == unite

accepter_patient(unite) ==
    IF a_de_la_place_unite(unite)
    THEN [unite EXCEPT !.patients_actuels = @ + 1]
    ELSE unite

\* next((u for u in self.unites if u.nom == unite_nom), None); 0 for None.
TrouverUnite(us, nom) ==
    IF \E i \in DOMAIN us : us[i].nom = nom
    THEN CHOOSE i \in DOMAIN us :
            us[i].nom = nom /\ \A j \in 1..(i - 1) : us[j].nom # nom
    ELSE 0

\* A plausible slip: the unit's capacity is not looked at before the transfer.
transferer_patient_sans_place(e, p, nom) ==
    LET u == TrouverUnite(e.unites, nom) IN
    IF u = 0 THEN [e EXCEPT !.code = "UNIT_NOT_FOUND"]
    ELSE [code |-> "OK",
          unites |-> [e.unites EXCEPT ![u] = accepter_patient(@)],
          patients_transferes |-> Append(e.patients_transferes, p),
          salles |-> [i \in DOMAIN e.salles |-> retirer_patient(e.salles[i], p)],
          pat |-> IF \E i \in DOMAIN e.salles : Dans(e.salles[i].patients, p)
                  THEN [e.pat EXCEPT ![p].salle = AucuneSalle]
                  ELSE e.pat]

\* AgentOrchestration.transferer_patient on e = [pat, salles, unites,
\* patients_transferes, code]; code is what the call returns.
transferer_patient(e, p, nom) ==
    LET u == TrouverUnite(e.unites, nom) IN
    IF u = 0 THEN [e EXCEPT !.code = "UNIT_NOT_FOUND"]
    ELSE IF ~a_de_la_place_unite(e.unites[u]) THEN [e EXCEPT !.code = "UNIT_FULL"]
    ELSE [code |-> "OK",
          unites |-> [e.unites EXCEPT ![u] = accepter_patient(@)],
          patients_transferes |-> Append(e.patients_transferes, p),
          salles |-> [i \in DOMAIN e.salles |-> retirer_patient(e.salles[i], p)],
          pat |-> IF \E i \in DOMAIN e.salles : Dans(e.salles[i].patients, p)
                  THEN [e.pat EXCEPT ![p].salle = AucuneSalle]
                  ELSE e.pat]

EtatTransfert ==
    [pat |-> pat, salles |-> salles, unites |-> unites,
     patients_transferes |-> patients_transferes, code |-> "OK"]

\* A caller transfers a patient to the unit named nom.
Transferer(p, nom) ==
    /\ p \in DOMAIN pat
    /\ \E e \in {transferer_patient(EtatTransfert, p, nom)} :
          /\ pat' = e.pat
          /\ salles' = e.salles
          /\ unites' = e.unites
          /\ patients_transferes' = e.patients_transferes
          /\ resultat' = [op |-> "transferer", patient |-> p,
                          code |-> e.code]
    /\ UNCHANGED <<horloge, temps_virtuel, docteur, infirmieres, aides_soignants,
                   patients_en_attente, violations, actions>>

----------------------------------------------------------------------------
\* str.lower() on the tags the model uses.
Minuscule(s) ==
    CASE s = "CARDIAQUE" -> "cardiaque"
      [] s = "Cardiaque" -> "cardiaque"
      [] s = "FRACTURE" -> "fracture"
      [] OTHER -> s

\* A plausible slip: the tags compared as written, case included.
Correspond_casse(unite, tm) ==
    \E k \in DOMAIN tm : \E j \in DOMAIN unite.specialites :
        tm[k] = unite.specialites[j]

\* any patho of the patient, lower-cased, among the unit's lower-cased specialties
Correspond(unite, tm) ==
    \E k \in DOMAIN tm : \E j \in DOMAIN unite.specialites :
        Minuscule(tm[k]) = Minuscule(unite.specialites[j])

\* A plausible slip: the last matching unit instead of the first.
DerniereUniteSpecialite(us, tm) ==
    IF \E i \in DOMAIN us : Correspond(us[i], tm)
    THEN CHOOSE i \in DOMAIN us :
            Correspond(us[i], tm) /\ \A j \in (i + 1)..Len(us) : ~Correspond(us[j], tm)
    ELSE 0

\* First unit, in configured order, with a matching specialty; 0 when none.
UniteSpecialite(us, tm) ==
    IF \E i \in DOMAIN us : Correspond(us[i], tm)
    THEN CHOOSE i \in DOMAIN us :
            Correspond(us[i], tm) /\ \A j \in 1..(i - 1) : ~Correspond(us[j], tm)
    ELSE 0

\* A plausible slip: the specialty is looked up before the rule for GRIS.
suggerer_unite_specialite_d_abord(us, g, tm) ==
    LET u == UniteSpecialite(us, tm) IN
    IF g = "ROUGE" /\ u # 0 THEN [unite |-> us[u].nom, priorite |-> "IMMEDIATE"]
    ELSE IF g = "ROUGE" THEN [unite |-> RegleRougeTransfert, priorite |-> "IMMEDIATE"]
    ELSE IF u # 0 THEN [unite |-> us[u].nom, priorite |-> "NORMALE"]
    ELSE IF g = "GRIS" THEN [unite |-> RegleGrisTransfert, priorite |-> "NORMALE"]
    ELSE [unite |-> UniteParDefaut, priorite |-> "NORMALE"]

\* AgentOrchestration._suggerer_unite_transfert
suggerer_unite_transfert(us, g, tm) ==
    LET u == UniteSpecialite(us, tm) IN
    IF g = "GRIS" THEN [unite |-> RegleGrisTransfert, priorite |-> "NORMALE"]
    ELSE IF g = "ROUGE" /\ u # 0 THEN [unite |-> us[u].nom, priorite |-> "IMMEDIATE"]
    ELSE IF g = "ROUGE" THEN [unite |-> RegleRougeTransfert, priorite |-> "IMMEDIATE"]
    ELSE IF u # 0 THEN [unite |-> us[u].nom, priorite |-> "NORMALE"]
    ELSE [unite |-> UniteParDefaut, priorite |-> "NORMALE"]

----------------------------------------------------------------------------
\* cycle_orchestration(temps_virtuel = m), on c = the mutable state and the
\* action list built so far.
EtatCycle ==
    [pat |-> pat, salles |-> salles, docteur |-> docteur,
     infirmieres |-> infirmieres, aides_soignants |-> aides_soignants,
     unites |-> unites, patients_en_attente |-> patients_en_attente,
     patients_transferes |-> patients_transferes, actions |-> <<>>]

Action(type, qui, p, salle, unite) ==
    [type |-> type, qui |-> qui, patient |-> p, salle |-> salle, unite |-> unite]

\* A plausible slip: the last available member instead of the first.
DernierDisponible(staff) ==
    IF \E i \in DOMAIN staff : staff[i].statut = "DISPONIBLE"
    THEN CHOOSE i \in DOMAIN staff :
            /\ staff[i].statut = "DISPONIBLE"
            /\ \A j \in (i + 1)..Len(staff) : staff[j].statut # "DISPONIBLE"
    ELSE 0

\* next((x for x in staff if x.statut == DISPONIBLE), None); 0 for None.
PremierDisponible(staff) ==
    IF \E i \in DOMAIN staff : staff[i].statut = "DISPONIBLE"
    THEN CHOOSE i \in DOMAIN staff :
            /\ staff[i].statut = "DISPONIBLE"
            /\ \A j \in 1..(i - 1) : staff[j].statut # "DISPONIBLE"
    ELSE 0

\* A plausible slip: step 1 left out, nobody is released.
Liberer_jamais(staff, m) == staff

\* A plausible slip: the activity must be strictly over.
Liberer_apres_echeance(staff, m) ==
    [i \in DOMAIN staff |->
        IF /\ staff[i].statut = "OCCUPE"
           /\ staff[i].fin_activite # AucuneHeure
           /\ m > staff[i].fin_activite
        THEN PersonnelLibre
        ELSE staff[i]]

Liberer(staff, m) ==
    [i \in DOMAIN staff |->
        IF /\ staff[i].statut = "OCCUPE"
           /\ staff[i].fin_activite # AucuneHeure
           /\ m >= staff[i].fin_activite
        THEN PersonnelLibre
        ELSE staff[i]]

\* 1. nurses and aides whose activity is over become available
Etape1(c, m) ==
    [c EXCEPT !.infirmieres = Liberer(@, m),
              !.aides_soignants = Liberer(@, m)]

\* 2. end of consultation and start of the transport
Etape2(c, m) ==
    IF c.docteur.statut = "OCCUPE" /\ m >= c.docteur.fin_activite
    THEN LET p == c.docteur.patient_en_charge
             a == PremierDisponible(c.aides_soignants)
         IN IF a # 0
            THEN LET sug == suggerer_unite_transfert(c.unites, c.pat[p].gravite,
                                                     c.pat[p].type_maladie)
                     pat1 == [c.pat EXCEPT ![p].statut = "TRANSFERE"]
                     e == transferer_patient(
                            [pat |-> pat1, salles |-> c.salles, unites |-> c.unites,
                             patients_transferes |-> c.patients_transferes,
                             code |-> "OK"], p, sug.unite)
                 IN [c EXCEPT
                        !.docteur = [@ EXCEPT !.statut = "DISPONIBLE",
                                              !.patient_en_charge = AucunPatient],
                        !.aides_soignants[a] =
                            [statut |-> "OCCUPE", patient_en_charge |-> p,
                             fin_activite |-> m + DureeTransport],
                        !.pat = e.pat,
                        !.salles = e.salles,
                        !.unites = e.unites,
                        !.patients_transferes = e.patients_transferes,
                        !.actions = Append(@, Action("TRANSPORT", a, p, AucuneSalle,
                                                     sug.unite))]
            ELSE [c EXCEPT !.actions =
                    Append(@, Action("ATTENTE_TRANSPORT", 0, p, AucuneSalle, ""))]
    ELSE c

\* 3. rooms not inspected for 15 minutes, in order, from room i on
RECURSIVE Surveiller(_, _, _)
Surveiller(c, m, i) ==
    IF i > Len(c.salles) THEN c
    ELSE LET inf == PremierDisponible(c.infirmieres) IN
         IF m - c.salles[i].derniere_surveillance >= DelaiSurveillance /\ inf # 0
         THEN Surveiller(
                [c EXCEPT
                    !.infirmieres[inf] = [@ EXCEPT !.statut = "OCCUPE",
                                                   !.fin_activite = m + DureeInspection],
                    !.salles[i] = [@ EXCEPT !.derniere_surveillance = m],
                    !.actions = Append(@, Action("INSPECTION", inf, AucunPatient,
                                                 c.salles[i].numero, ""))],
                m, i + 1)
         ELSE Surveiller(c, m, i + 1)

Etape3(c, m) == Surveiller(c, m, 1)

\* A plausible slip: the next consultation starts whether or not the doctor
\* is available.
Etape4_sans_controle(c, m) ==
    LET prochain == selectionner_prochain_patient(c.patients_en_attente) IN
    IF prochain # AucunPatient
    THEN [c EXCEPT
            !.docteur = [statut |-> "OCCUPE", patient_en_charge |-> prochain,
                         fin_activite |-> m + DureeConsultation],
            !.pat[prochain].statut = "EN_CONSULTATION",
            !.patients_en_attente = RetirerPremier(@, prochain),
            !.actions = Append(@, Action("CONSULTATION", 0, prochain,
                                         AucuneSalle, ""))]
    ELSE c

\* 4. next consultation
Etape4(c, m) ==
    IF c.docteur.statut = "DISPONIBLE"
    THEN LET prochain == selectionner_prochain_patient(c.patients_en_attente) IN
         IF prochain # AucunPatient
         THEN [c EXCEPT
                !.docteur = [statut |-> "OCCUPE", patient_en_charge |-> prochain,
                             fin_activite |-> m + DureeConsultation],
                !.pat[prochain].statut = "EN_CONSULTATION",
                !.patients_en_attente = RetirerPremier(@, prochain),
                !.actions = Append(@, Action("CONSULTATION", 0, prochain,
                                             AucuneSalle, ""))]
         ELSE c
    ELSE c

\* A plausible slip: the next consultation is looked for before the end of the
\* current one is handled.
cycle_orchestration_consultation_avant(m) ==
    Etape3(Etape2(Etape4(Etape1(EtatCycle, m), m), m), m)

cycle_orchestration(m) == Etape4(Etape3(Etape2(Etape1(EtatCycle, m), m), m), m)

\* The caller runs one cycle at the time m it supplies, never earlier than the last.
Cycle(m) ==
    /\ m >= temps_virtuel
    /\ \E c \in {cycle_orchestration(m)} :
          /\ pat' = c.pat
          /\ salles' = c.salles
          /\ docteur' = c.docteur
          /\ infirmieres' = c.infirmieres
          /\ aides_soignants' = c.aides_soignants
          /\ unites' = c.unites
          /\ patients_en_attente' = c.patients_en_attente
          /\ patients_transferes' = c.patients_transferes
          /\ actions' = c.actions
    /\ temps_virtuel' = m
    /\ resultat' = [op |-> "cycle", patient |-> AucunPatient, code |-> "OK"]
    /\ UNCHANGED <<horloge, violations>>

----------------------------------------------------------------------------
\* sum(s.capacite for s in self.salles)
RECURSIVE SommeCapacites(_)
SommeCapacites(ss) ==
    IF ss = <<>> THEN 0 ELSE Head(ss).capacite + SommeCapacites(Tail(ss))

CapaciteTotale == SommeCapacites(salles)

\* priority_queue(): the caller reads the ordered waiting list; sorted() builds
\* a new list and leaves patients_en_attente as it is.
ApresLecture(file) == file

LireFile ==
    /\ patients_en_attente' = ApresLecture(patients_en_attente)
    /\ resultat' = [op |-> "file", patient |-> selectionner_prochain_patient(patients_en_attente),
                    code |-> "OK"]
    /\ UNCHANGED <<horloge, temps_virtuel, pat, salles, docteur, infirmieres,
                   aides_soignants, unites, patients_transferes, violations,
                   actions>>

\* priorite_effective evaluated on its own, on a severity and a wait.
InitPriorite ==
    /\ InitEtat
    /\ \E g \in Gravites, w \in Attentes :
          resultat = [op |-> "priorite_effective", gravite |-> g, attente |-> w,
                      valeur |-> 0]

EvaluerPriorite ==
    /\ resultat.op = "priorite_effective"
    /\ resultat.valeur = 0
    /\ resultat' = [resultat EXCEPT
                        !.valeur = priorite_effective(resultat.gravite,
                                                      resultat.attente)]
    /\ UNCHANGED <<horloge, temps_virtuel, pat, salles, docteur, infirmieres,
                   aides_soignants, unites, patients_en_attente,
                   patients_transferes, violations, actions>>

----------------------------------------------------------------------------
\* Admissions, resubmissions, room discharges and reads of the queue.
NextAccueil ==
    \/ \E p \in PatientIds : Accueillir(p)
    \/ \E p \in PatientIds : Resoumettre(p)
    \/ \E s \in DOMAIN SallesConfig, p \in PatientIds : Retirer(s, p)
    \/ LireFile
    \/ Horloge

SpecAccueil == Init /\ [][NextAccueil]_vars

\* Admissions of distinct patients only.
NextAdmission ==
    \/ \E p \in PatientIds : Accueillir(p)
    \/ Horloge

SpecAdmission == Init /\ [][NextAdmission]_vars

\* Admissions, resubmissions and cycles.
Next ==
    \/ \E p \in PatientIds : Accueillir(p)
    \/ \E p \in PatientIds : Resoumettre(p)
    \/ \E m \in Instants : Cycle(m)
    \/ Horloge

Spec == Init /\ [][Next]_vars

\* Admissions, cycles and transfers made by the callers.
NextTransfert ==
    \/ \E p \in PatientIds : Accueillir(p)
    \/ \E m \in InstantsCourts : Cycle(m)
    \/ \E p \in PatientIds, nom \in NomsUnites : Transferer(p, nom)

SpecTransfert == Init /\ [][NextTransfert]_vars

\* priorite_effective on every severity and every wait of Attentes.
SpecPriorite == InitPriorite /\ [][EvaluerPriorite]_vars

----------------------------------------------------------------------------
\* The admission form: the caller gives the patient whatever id it likes, so
\* the ids need not follow the order of admission.
AccueillirSaisie(p) ==
    /\ p \notin DOMAIN pat
    /\ \E pr \in Profils :
          accueillir_patient(p, NouveauPatient(pr.gravite, pr.type_maladie,
                                               horloge - pr.attente))
    /\ UNCHANGED <<horloge, temps_virtuel, docteur, infirmieres, aides_soignants,
                   unites, patients_transferes, actions>>

\* Admissions under ids in any order, and reads of the queue.
NextOrdre ==
    \/ \E p \in PatientIds : AccueillirSaisie(p)
    \/ LireFile
    \/ Horloge

SpecOrdre == Init /\ [][NextOrdre]_vars

----------------------------------------------------------------------------
\* The capacities and the room numbers an administrator may enter.
Capacites == {0, 1, 2}

NumerosSalles == {1, 2, 3}

\* next((s for s in self.agent.salles if s.numero == numero_salle), None); 0 for None.
TrouverSalle(ss, numero) ==
    IF \E i \in DOMAIN ss : ss[i].numero = numero
    THEN CHOOSE i \in DOMAIN ss :
            ss[i].numero = numero /\ \A j \in 1..(i - 1) : ss[j].numero # numero
    ELSE 0

\* MCPTools.modifier_capacite_salle(numero_salle, nouvelle_capacite)
modifier_capacite_salle(numero, c) ==
    LET i == TrouverSalle(salles, numero) IN
    IF i = 0
    THEN /\ UNCHANGED salles
         /\ resultat' = [op |-> "capacite", patient |-> AucunPatient,
                         code |-> "ROOM_NOT_FOUND"]
    ELSE /\ salles' = [salles EXCEPT ![i].capacite = c]
         /\ resultat' = [op |-> "capacite", patient |-> AucunPatient,
                         code |-> "OK"]

ModifierCapacite(numero, c) ==
    /\ modifier_capacite_salle(numero, c)
    /\ UNCHANGED <<horloge, temps_virtuel, pat, docteur, infirmieres,
                   aides_soignants, unites, patients_en_attente,
                   patients_transferes, violations, actions>>

\* Admissions and changes of room capacity.
NextCapacite ==
    \/ \E p \in PatientIds : Accueillir(p)
    \/ \E numero \in NumerosSalles, c \in Capacites : ModifierCapacite(numero, c)

SpecCapacite == Init /\ [][NextCapacite]_vars

----------------------------------------------------------------------------
\* _suggerer_unite_transfert evaluated on its own: on every severity, on the
\* lists of at most MaxTags condition tags, and on catalogs made of the
\* configured units in any number and order, all empty or all full.
MaxTags == 2

Tags == {"Cardiaque", "FRACTURE", "rhume"}

ListesTags == UNION {[1..n -> Tags] : n \in 0..MaxTags}

OrdresUnites ==
    {o \in UNION {[1..n -> DOMAIN UnitesConfig] : n \in 0..Len(UnitesConfig)} :
        \A i, j \in DOMAIN o : i # j => o[i] # o[j]}

Catalogues ==
    {[i \in DOMAIN o |->
        [nom |-> UnitesConfig[o[i]].nom,
         capacite |-> UnitesConfig[o[i]].capacite,
         patients_actuels |-> IF plein THEN UnitesConfig[o[i]].capacite ELSE 0,
         specialites |-> UnitesConfig[o[i]].specialites]] :
        o \in OrdresUnites, plein \in BOOLEAN}

InitSuggestion ==
    /\ horloge = 0
    /\ temps_virtuel = 0
    /\ pat = << >>
    /\ salles = [i \in DOMAIN SallesConfig |->
                    [numero |-> SallesConfig[i].numero,
                     capacite |-> SallesConfig[i].capacite,
                     patients |-> <<>>,
                     derniere_surveillance |-> 0]]
    /\ docteur = PersonnelLibre
    /\ infirmieres = [i \in DOMAIN InfirmieresConfig |-> PersonnelLibre]
    /\ aides_soignants = [i \in DOMAIN AidesConfig |-> PersonnelLibre]
    /\ unites \in Catalogues
    /\ patients_en_attente = <<>>
    /\ patients_transferes = <<>>
    /\ violations = <<>>
    /\ actions = <<>>
    /\ \E g \in Gravites, tm \in ListesTags :
          resultat = [op |-> "suggerer", gravite |-> g, type_maladie |-> tm,
                      unite |-> "", priorite |-> ""]

\* The call _suggerer_unite_transfert(patient): it reads the patient and the
\* units and returns the suggestion.
Suggerer ==
    /\ resultat.op = "suggerer"
    /\ resultat.unite = ""
    /\ \E sug \in {suggerer_unite_transfert(unites, resultat.gravite,
                                            resultat.type_maladie)} :
          resultat' = [resultat EXCEPT !.unite = sug.unite,
                                       !.priorite = sug.priorite]
    /\ UNCHANGED <<horloge, temps_virtuel, pat, salles, docteur, infirmieres,
                   aides_soignants, unites, patients_en_attente,
                   patients_transferes, violations, actions>>

SpecSuggestion == InitSuggestion /\ [][Suggerer]_vars

----------------------------------------------------------------------------
\* sum(len(s.patients) for s in self.salles)
RECURSIVE SommeOccupation(_)
SommeOccupation(ss) ==
    IF ss = <<>> THEN 0 ELSE Len(Head(ss).patients) + SommeOccupation(Tail(ss))

\* AgentOrchestration._calculer_metriques_instant: the places, and the counts
\* of patients waiting, in consultation and transferred.
calculer_metriques_instant ==
    [total_places |-> SommeCapacites(salles),
     occupation |-> SommeOccupation(salles),
     patients_attente |-> Len(patients_en_attente),
     patients_consultation |-> IF docteur.statut = "OCCUPE" THEN 1 ELSE 0,
     patients_transferes |-> Len(patients_transferes)]

\* The levels of the priority rules: a consultation length for some severities,
\* a level without a length, and no level at all for GRIS.
NiveauxConfig ==
    << [gravite |-> "ROUGE", temps_consultation_max |-> 15],
       [gravite |-> "JAUNE", temps_consultation_max |-> 10],
       [gravite |-> "VERT"] >>

DureeParDefaut == 5

\* duree_min: the length of the first level of the severity, 5 without one.
RECURSIVE DureeNiveau(_, _)
DureeNiveau(niveaux, g) ==
    IF niveaux = <<>> THEN DureeParDefaut
    ELSE IF Head(niveaux).gravite = g
         THEN IF "temps_consultation_max" \in DOMAIN Head(niveaux)
              THEN Head(niveaux).temps_consultation_max
              ELSE DureeParDefaut
         ELSE DureeNiveau(Tail(niveaux), g)

duree_min(g) == DureeNiveau(NiveauxConfig, g)

\* McpTools.ajouter_personnel_temporaire: a new member, available, is appended
\* to the roster of its type; any other type is refused.
MaxInfirmieres == 2

TypesPersonnel == {"infirmiere", "medecin"}

ajouter_personnel_temporaire(e, type_personnel) ==
    IF type_personnel = "infirmiere"
    THEN [e EXCEPT !.infirmieres = Append(@, PersonnelLibre), !.code = "OK"]
    ELSE IF type_personnel = "aide_soignant"
         THEN [e EXCEPT !.aides_soignants = Append(@, PersonnelLibre), !.code = "OK"]
         ELSE [e EXCEPT !.code = "TYPE_INVALIDE"]

AjouterPersonnel(t) ==
    /\ Len(infirmieres) < MaxInfirmieres
    /\ \E e \in {ajouter_personnel_temporaire(
                    [infirmieres |-> infirmieres,
                     aides_soignants |-> aides_soignants, code |-> "OK"], t)} :
          /\ infirmieres' = e.infirmieres
          /\ aides_soignants' = e.aides_soignants
          /\ resultat' = [op |-> "ajouter_personnel", patient |-> AucunPatient,
                          code |-> e.code]
    /\ UNCHANGED <<horloge, temps_virtuel, pat, salles, docteur, unites,
                   patients_en_attente, patients_transferes, violations, actions>>

\* Admissions, cycles and temporary staff.
NextSurveillance ==
    \/ \E p \in PatientIds : Accueillir(p)
    \/ \E m \in Instants : Cycle(m)
    \/ \E t \in TypesPersonnel : AjouterPersonnel(t)

SpecSurveillance == Init /\ [][NextSurveillance]_vars

\* A department of four rooms and one nurse, with or without an aide, run by
\* the simulation loop: patients are admitted, then tick_simulation is called
\* again and again, each call one simulated minute after the last.
SallesRonde ==
    << [numero |-> 1, capacite |-> 1], [numero |-> 2, capacite |-> 1],
       [numero |-> 3, capacite |-> 1], [numero |-> 4, capacite |-> 1] >>

InitContinu ==
    /\ horloge = 0
    /\ temps_virtuel = 0
    /\ pat = << >>
    /\ salles = [i \in DOMAIN SallesRonde |->
                    [numero |-> SallesRonde[i].numero,
                     capacite |-> SallesRonde[i].capacite,
                     patients |-> <<>>,
                     derniere_surveillance |-> 0]]
    /\ docteur = PersonnelLibre
    /\ infirmieres = [i \in DOMAIN InfirmieresConfig |-> PersonnelLibre]
    /\ aides_soignants \in {<<>>, [i \in DOMAIN AidesConfig |-> PersonnelLibre]}
    /\ unites = [i \in DOMAIN UnitesConfig |->
                    [nom |-> UnitesConfig[i].nom,
                     capacite |-> UnitesConfig[i].capacite,
                     patients_actuels |-> 0,
                     specialites |-> UnitesConfig[i].specialites]]
    /\ patients_en_attente = <<>>
    /\ patients_transferes = <<>>
    /\ violations = <<>>
    /\ actions = <<>>
    /\ resultat = [op |-> "init", patient |-> AucunPatient, code |-> "OK"]

\* The cycle compares times only by their differences with the time of the
\* call, so the loop is followed with every time counted from the current
\* minute: after the cycle at minute temps_virtuel + 1 each time is moved back
\* by one minute and temps_virtuel keeps its value.  A time so far back that
\* every later comparison has the same outcome is kept at the floor `plancher`.
Recaler(x, plancher) == IF x - 1 < plancher THEN plancher ELSE x - 1

\* An activity whose end is reached stays reached: floor at the current minute.
RecalerPersonnel(staff) ==
    [i \in DOMAIN staff |->
        [staff[i] EXCEPT !.fin_activite =
            IF @ = AucuneHeure THEN @ ELSE Recaler(@, temps_virtuel)]]

\* A room due for an inspection stays due: floor at 15 minutes before the
\* next call.
RecalerSalles(ss) ==
    [i \in DOMAIN ss |->
        [ss[i] EXCEPT !.derniere_surveillance =
            Recaler(@, temps_virtuel + 1 - DelaiSurveillance)]]

\* tick_simulation: one cycle, one simulated minute after the last one; the
\* four steps of cycle_orchestration, each on the result of the one before.
Tic ==
    /\ \E c1 \in {Etape1(EtatCycle, temps_virtuel + 1)} :
       \E c2 \in {Etape2(c1, temps_virtuel + 1)} :
       \E c3 \in {Etape3(c2, temps_virtuel + 1)} :
       \E c \in {Etape4(c3, temps_virtuel + 1)} :
          /\ pat' = c.pat
          /\ salles' = RecalerSalles(c.salles)
          /\ docteur' = RecalerPersonnel(<<c.docteur>>)[1]
          /\ infirmieres' = RecalerPersonnel(c.infirmieres)
          /\ aides_soignants' = RecalerPersonnel(c.aides_soignants)
          /\ unites' = c.unites
          /\ patients_en_attente' = c.patients_en_attente
          /\ patients_transferes' = c.patients_transferes
          /\ actions' = c.actions
    /\ resultat' = [op |-> "cycle", patient |-> AucunPatient, code |-> "OK"]
    /\ UNCHANGED <<horloge, temps_virtuel, violations>>

\* Admissions stop when the loop starts.
AccueillirAvant(p) ==
    /\ resultat.op # "cycle"
    /\ Accueillir(p)

NextContinu ==
    \/ \E p \in PatientIds : AccueillirAvant(p)
    \/ Tic

\* The loop never stops calling tick_simulation.
SpecContinu == InitContinu /\ [][NextContinu]_vars /\ WF_vars(Tic)

\* The caller submits again a patient the department already holds:
\* accueillir_patient on the same Patient object.
Reaccueillir(p) ==
    /\ p \in DOMAIN pat
    /\ ~Refuse(p)
    /\ accueillir_patient(p, pat[p])
    /\ UNCHANGED <<horloge, temps_virtuel, docteur, infirmieres, aides_soignants,
                   unites, patients_transferes, actions>>

\* Admissions, repeated admissions and cycles.
NextDoublon ==
    \/ \E p \in PatientIds : Accueillir(p)
    \/ \E p \in PatientIds : Reaccueillir(p)
    \/ \E m \in InstantsCourts : Cycle(m)

SpecDoublon == Init /\ [][NextDoublon]_vars

----------------------------------------------------------------------------
\* Properties.

EnAttente == {patients_en_attente[i] : i \in DOMAIN patients_en_attente}

Occurrences(s, x) == Cardinality({i \in DOMAIN s : s[i] = x})

\* A step that is an admission of p, first or resubmitted.
EtapeAccueil(p) == Accueillir(p) \/ Resoumettre(p)

\* C1: after any sequence of admissions and room discharges, every room holds
\* at most `capacite` patients.
C1_OccupationSalles ==
    \A i \in DOMAIN salles : Len(salles[i].patients) <= salles[i].capacite

\* Every room is full again after a patient was taken out of its room and
\* another one admitted in its place.
C1_Witness ==
    /\ \A i \in DOMAIN salles : Len(salles[i].patients) = salles[i].capacite
    /\ Len(patients_en_attente) > CapaciteTotale
    /\ \E p \in DOMAIN pat : Dans(patients_en_attente, p) /\ pat[p].salle = AucuneSalle

\* C2: from empty rooms of total capacity C, once C+1 distinct patients have
\* been submitted, exactly C were admitted (they wait, each in a room) and
\* exactly one was rejected with ROOM_FULL, whatever their order and severities.
C2_Saturation ==
    Cardinality(DOMAIN pat) = CapaciteTotale + 1 =>
        /\ Len(patients_en_attente) = CapaciteTotale
        /\ Cardinality({p \in DOMAIN pat : pat[p].salle # AucuneSalle}) = CapaciteTotale
        /\ Cardinality({p \in DOMAIN pat : Dans(patients_en_attente, p)}) = CapaciteTotale
        /\ Len(violations) = 1
        /\ Cardinality({p \in DOMAIN pat : Refuse(p)}) = 1

C2_Witness ==
    /\ Cardinality(DOMAIN pat) = CapaciteTotale + 1
    /\ resultat.op = "accueillir"
    /\ resultat.code = "ROOM_FULL"

\* C3: a successful admission puts the patient at the end of the first room, in
\* configured order, that has a free place (every earlier room is full),
\* leaves the patient EN_ATTENTE with that room as its room, appends it to the
\* waiting list, and changes no other room.
C3_PremiereSalle ==
    [][\A p \in PatientIds :
          (EtapeAccueil(p) /\ resultat'.code = "OK") =>
              \E i \in DOMAIN salles :
                  /\ Len(salles[i].patients) < salles[i].capacite
                  /\ \A j \in 1..(i - 1) :
                        Len(salles[j].patients) >= salles[j].capacite
                  /\ salles'[i] = [salles[i] EXCEPT !.patients = Append(@, p)]
                  /\ \A j \in DOMAIN salles \ {i} : salles'[j] = salles[j]
                  /\ pat'[p].salle = salles[i].numero
                  /\ pat'[p].statut = "EN_ATTENTE"
                  /\ patients_en_attente' = Append(patients_en_attente, p)]_vars

\* A third admission that went to room 1, freed by a discharge, while room 2
\* is occupied.
C3_Witness ==
    /\ resultat.op = "accueillir"
    /\ resultat.code = "OK"
    /\ pat[resultat.patient].salle = 1
    /\ salles[2].patients # <<>>
    /\ Len(patients_en_attente) >= 3

\* A step that is an admission of p rejected for lack of room.
EtapeRejet(p) == EtapeAccueil(p) /\ resultat'.code = "ROOM_FULL"

\* C4, as stated: a rejected admission modifies no piece of the department state.
C4_RejetSansTrace ==
    [][\A p \in PatientIds :
          EtapeRejet(p) =>
              /\ UNCHANGED <<salles, docteur, infirmieres, aides_soignants, unites,
                             patients_en_attente, patients_transferes, violations>>
              /\ \A q \in DOMAIN pat : pat'[q] = pat[q]]_vars

\* C4, amended: a rejected admission leaves the patient in no room and out of
\* the waiting list and changes nothing of the rooms, staff, units, waiting
\* list, transferred list and patients, except that one SALLE_PLEINE record is
\* appended to the violations; and a cycle never touches a rejected patient.
C4_RejetSansEffet ==
    [][\A p \in PatientIds :
          /\ EtapeRejet(p) =>
                /\ UNCHANGED <<salles, docteur, infirmieres, aides_soignants,
                               unites, patients_en_attente, patients_transferes>>
                /\ \A q \in DOMAIN pat : pat'[q] = pat[q]
                /\ pat'[p].salle = AucuneSalle
                /\ ~Dans(patients_en_attente', p)
                /\ \A i \in DOMAIN salles : ~Dans(salles'[i].patients, p)
                /\ violations' = Append(violations,
                        [type |-> "SALLE_PLEINE", timestamp |-> horloge,
                         patient_id |-> p])
          /\ (Refuse(p) /\ \E m \in Instants : Cycle(m)) =>
                /\ pat'[p] = pat[p]
                /\ ~Dans(patients_en_attente', p)
                /\ \A i \in DOMAIN salles : ~Dans(salles'[i].patients, p)
                /\ docteur'.patient_en_charge # p]_vars

\* A cycle has run and started a consultation while a rejected patient stays out.
C4_Witness ==
    /\ \E p \in DOMAIN pat : Refuse(p)
    /\ violations # <<>>
    /\ resultat.op = "cycle"
    /\ docteur.statut = "OCCUPE"

\* C5: a transfer to a unit whose occupancy equals its capacity returns
\* UNIT_FULL, a transfer to a name that is not in the catalog returns
\* UNIT_NOT_FOUND, and both leave the units, the rooms, the transferred list
\* and the patients as they were.
C5_TransfertRefuse ==
    [][\A p \in PatientIds, nom \in NomsUnites :
          Transferer(p, nom) =>
              /\ (\A u \in DOMAIN unites : unites[u].nom # nom) =>
                    /\ resultat'.code = "UNIT_NOT_FOUND"
                    /\ UNCHANGED <<unites, salles, patients_transferes, pat>>
              /\ (\E u \in DOMAIN unites :
                     /\ unites[u].nom = nom
                     /\ unites[u].patients_actuels = unites[u].capacite) =>
                    /\ resultat'.code = "UNIT_FULL"
                    /\ UNCHANGED <<unites, salles, patients_transferes, pat>>]_vars

\* A transfer of a patient that is in a room was refused by a full unit.
C5_Witness ==
    /\ resultat.op = "transferer"
    /\ resultat.code = "UNIT_FULL"
    /\ pat[resultat.patient].salle # AucuneSalle
    /\ \E u \in DOMAIN unites : unites[u].patients_actuels = unites[u].capacite

\* C6: after any sequence of admissions, cycles and transfers, the occupancy
\* of every unit is at most its capacity.
C6_OccupationUnites ==
    \A u \in DOMAIN unites : unites[u].patients_actuels <= unites[u].capacite

\* A cycle has just sent a patient to a unit that is now full.
C6_Witness ==
    /\ resultat.op = "cycle"
    /\ \E k \in DOMAIN actions : \E u \in DOMAIN unites :
          /\ actions[k].type = "TRANSPORT"
          /\ unites[u].nom = actions[k].unite
          /\ unites[u].patients_actuels = unites[u].capacite
          /\ Dans(patients_transferes, actions[k].patient)

\* C7: priorite_effective is in 1..5 and is 1 for ROUGE whatever the wait, 2 for
\* VERT with a wait above 360 minutes, 3 for JAUNE whatever the wait, 4 for VERT
\* with a wait of at most 360 minutes (360 gives 4, 361 gives 2), 5 for GRIS.
C7_Priorite ==
    (resultat.op = "priorite_effective" /\ resultat.valeur # 0) =>
        LET g == resultat.gravite
            w == resultat.attente
            v == resultat.valeur
        IN /\ v \in 1..5
           /\ g = "ROUGE" => v = 1
           /\ (g = "VERT" /\ w > 360) => v = 2
           /\ g = "JAUNE" => v = 3
           /\ (g = "VERT" /\ w <= 360) => v = 4
           /\ g = "GRIS" => v = 5
           /\ (g = "VERT" /\ w = 360) => v = 4
           /\ (g = "VERT" /\ w = 361) => v = 2

C7_Witness ==
    /\ resultat.op = "priorite_effective"
    /\ resultat.gravite = "VERT"
    /\ resultat.attente = 361
    /\ resultat.valeur = 2

\* The sort key the ranking would have if the wait were measured against the
\* time `now` passed to the cycle.
CleSelon(now) ==
    [p \in DOMAIN pat |->
        <<priorite_effective(pat[p].gravite, now - pat[p].heure_arrivee),
          pat[p].heure_arrivee>>]

\* C8: the patient a cycle run at `now` takes into consultation is the head of
\* the waiting list ranked with waits measured against `now` alone (a VERT
\* patient ranks 2 exactly when now - arrival > 360), whatever the wall clock.
C8_HorlogeFournie ==
    [][\A m \in Instants :
          (Cycle(m) /\ \E k \in DOMAIN actions' : actions'[k].type = "CONSULTATION") =>
              docteur'.patient_en_charge =
                  TriStable(patients_en_attente, CleSelon(m))[1]]_vars

\* C9: a cycle that finds the doctor available and a patient waiting starts a
\* consultation, and the patient a cycle takes into consultation is a waiting
\* patient with the smallest (priorite_effective, heure_arrivee): a ROUGE one
\* if any waits, else a VERT one that has waited more than 360 minutes if any
\* waits, before every JAUNE.
C9_Selection ==
    [][\A m \in Instants :
          LET debut == \E k \in DOMAIN actions' : actions'[k].type = "CONSULTATION"
              q == docteur'.patient_en_charge
          IN /\ (Cycle(m) /\ docteur.statut = "DISPONIBLE"
                   /\ patients_en_attente # <<>>) => debut
             /\ (Cycle(m) /\ debut) =>
                   /\ q \in EnAttente
                   /\ docteur'.statut = "OCCUPE"
                   /\ pat'[q].statut = "EN_CONSULTATION"
                   /\ \A r \in EnAttente :
                         \/ Priorite(q) < Priorite(r)
                         \/ /\ Priorite(q) = Priorite(r)
                            /\ pat[q].heure_arrivee <= pat[r].heure_arrivee
                   /\ (\E r \in EnAttente : pat[r].gravite = "ROUGE") =>
                         pat[q].gravite = "ROUGE"
                   /\ ( /\ \A r \in EnAttente : pat[r].gravite # "ROUGE"
                        /\ \E r \in EnAttente :
                              /\ pat[r].gravite = "VERT"
                              /\ temps_attente_minutes(r) > 360 ) =>
                         /\ pat[q].gravite = "VERT"
                         /\ temps_attente_minutes(q) > 360]_vars

\* The cycle just run took a VERT patient that has waited more than 360
\* minutes while a JAUNE patient that arrived later is still waiting.
C9_Witness ==
    /\ resultat.op = "cycle"
    /\ \E k \in DOMAIN actions :
          /\ actions[k].type = "CONSULTATION"
          /\ actions[k].patient = docteur.patient_en_charge
    /\ docteur.patient_en_charge # AucunPatient
    /\ pat[docteur.patient_en_charge].gravite = "VERT"
    /\ temps_attente_minutes(docteur.patient_en_charge) > 360
    /\ \E r \in EnAttente : pat[r].gravite = "JAUNE"

\* The queue is a permutation of the waiting list, in ascending priority and,
\* at equal priority, in ascending arrival time.
FileOrdonnee ==
    \E f \in {calculer_file_priorite} :
    /\ Len(f) = Len(patients_en_attente)
    /\ \A p \in PatientIds : Occurrences(f, p) = Occurrences(patients_en_attente, p)
    /\ \A i, j \in DOMAIN f :
          i < j =>
              \/ Priorite(f[i]) < Priorite(f[j])
              \/ /\ Priorite(f[i]) = Priorite(f[j])
                 /\ pat[f[i]].heure_arrivee <= pat[f[j]].heure_arrivee

\* C10: calculer_file_priorite returns a permutation of the waiting list sorted
\* by ascending priority and, among equal priorities, by ascending arrival
\* time, and reading it leaves the waiting list as it was (the order is looked
\* at in the state each step starts from).
C10_FileTriee ==
    [][/\ FileOrdonnee
       /\ LireFile => patients_en_attente' = patients_en_attente]_vars

\* The queue of three waiting patients was read, it is not in admission order,
\* and two of them have the same priority and different arrival times.
C10_Witness ==
    /\ resultat.op = "file"
    /\ Len(patients_en_attente) >= 3
    /\ calculer_file_priorite # patients_en_attente
    /\ \E p, q \in EnAttente :
          /\ Priorite(p) = Priorite(q)
          /\ pat[p].heure_arrivee < pat[q].heure_arrivee

\* C11: two waiting patients with the same priority and the same arrival time
\* stand in the queue in the order of their ids, so that the queue and its head
\* do not depend on the order of admission.
C11_DepartageParId ==
    \E f \in {calculer_file_priorite} :
        \A i, j \in DOMAIN f :
            ( /\ i < j
              /\ Priorite(f[i]) = Priorite(f[j])
              /\ pat[f[i]].heure_arrivee = pat[f[j]].heure_arrivee ) =>
                f[i] < f[j]

\* C12: a cycle run at the time m of the cycle just before it returns an empty
\* action list and changes nothing of the department.
C12_Idempotence ==
    [][\A m \in Instants :
          (resultat.op = "cycle" /\ temps_virtuel = m /\ Cycle(m)) =>
              /\ actions' = <<>>
              /\ UNCHANGED etat]_vars

\* The doctor's consultation is over at m.
ConsultationEchue(m) == docteur.statut = "OCCUPE" /\ m >= docteur.fin_activite

\* An aide is available at m, once the aides whose activity is over are released.
AideLibre(m) == PremierDisponible(Liberer(aides_soignants, m)) # 0

\* The unit _suggerer_unite_transfert names for patient p.
SuggestionPour(p) ==
    suggerer_unite_transfert(unites, pat[p].gravite, pat[p].type_maladie).unite

\* The unit named nom is in the catalog and has a free place.
UniteAccepte(nom) ==
    \E u \in DOMAIN unites :
        unites[u].nom = nom /\ unites[u].patients_actuels < unites[u].capacite

\* What a committed transfer of p to the unit named nom leaves behind.
TransfertFait(p, nom) ==
    /\ pat'[p].statut = "TRANSFERE"
    /\ pat'[p].salle = AucuneSalle
    /\ \A i \in DOMAIN salles : ~Dans(salles'[i].patients, p)
    /\ patients_transferes' = Append(patients_transferes, p)
    /\ \E u \in DOMAIN unites :
          /\ unites[u].nom = nom
          /\ unites'[u].patients_actuels = unites[u].patients_actuels + 1
          /\ \A v \in DOMAIN unites \ {u} : unites'[v] = unites[v]

\* C13, as stated: whenever the consultation is over and an aide is available,
\* the cycle marks the patient TRANSFERE, adds one to the occupancy of the
\* suggested unit, takes the patient out of its room and records it in the
\* transferred list.
C13_TransfertImmediat ==
    [][\A m \in Instants :
          (Cycle(m) /\ ConsultationEchue(m) /\ AideLibre(m)) =>
              TransfertFait(docteur.patient_en_charge,
                            SuggestionPour(docteur.patient_en_charge))]_vars

\* C13, amended: the same, when the suggested unit is in the catalog and has a
\* free place; the aide then holds the patient for DureeTransport minutes.
C13_TransfertSiPlace ==
    [][\A m \in Instants :
          ( /\ Cycle(m)
            /\ ConsultationEchue(m)
            /\ AideLibre(m)
            /\ UniteAccepte(SuggestionPour(docteur.patient_en_charge)) ) =>
              /\ TransfertFait(docteur.patient_en_charge,
                               SuggestionPour(docteur.patient_en_charge))
              /\ \E a \in DOMAIN aides_soignants :
                    /\ aides_soignants'[a].statut = "OCCUPE"
                    /\ aides_soignants'[a].patient_en_charge =
                           docteur.patient_en_charge
                    /\ aides_soignants'[a].fin_activite = m + DureeTransport]_vars

\* The cycle just run ended a consultation and committed the transfer: the
\* patient is TRANSFERE, out of its room, recorded, counted by the unit and
\* held by the aide.
C13_Witness ==
    /\ resultat.op = "cycle"
    /\ \E k \in DOMAIN actions :
          /\ actions[k].type = "TRANSPORT"
          /\ pat[actions[k].patient].statut = "TRANSFERE"
          /\ pat[actions[k].patient].salle = AucuneSalle
          /\ Dans(patients_transferes, actions[k].patient)
          /\ aides_soignants[actions[k].qui].patient_en_charge = actions[k].patient
          /\ \E u \in DOMAIN unites :
                /\ unites[u].nom = actions[k].unite
                /\ unites[u].patients_actuels >= 1

\* C14: when the consultation is over and no aide is available, the cycle frees
\* the doctor of that patient (the doctor is available again, or busy with the
\* next waiting patient), leaves the patient's status as it was, keeps it out
\* of the waiting list and emits one ATTENTE_TRANSPORT action for it.
C14_DocteurLibere ==
    [][\A m \in Instants :
          (Cycle(m) /\ ConsultationEchue(m) /\ ~AideLibre(m)) =>
              /\ docteur'.patient_en_charge # docteur.patient_en_charge
              /\ patients_en_attente = <<>> =>
                    /\ docteur'.statut = "DISPONIBLE"
                    /\ docteur'.patient_en_charge = AucunPatient
              /\ patients_en_attente # <<>> =>
                    /\ docteur'.statut = "OCCUPE"
                    /\ docteur'.patient_en_charge \in EnAttente
              /\ pat'[docteur.patient_en_charge].statut =
                     pat[docteur.patient_en_charge].statut
              /\ ~Dans(patients_en_attente', docteur.patient_en_charge)
              /\ Cardinality({k \in DOMAIN actions' :
                              /\ actions'[k].type = "ATTENTE_TRANSPORT"
                              /\ actions'[k].patient = docteur.patient_en_charge})
                 = 1]_vars

\* C15: a patient for which the last cycle reported ATTENTE_TRANSPORT (its
\* consultation was over and no aide was available) is not taken up by a later
\* cycle: no cycle marks it TRANSFERE or gives it to an aide.
C15_SansReprise ==
    [][\A m \in Instants, p \in PatientIds :
          ( /\ Cycle(m)
            /\ \E k \in DOMAIN actions :
                  /\ actions[k].type = "ATTENTE_TRANSPORT"
                  /\ actions[k].patient = p ) =>
              /\ pat'[p].statut # "TRANSFERE"
              /\ \A a \in DOMAIN aides_soignants :
                    aides_soignants'[a].patient_en_charge # p]_vars

\* C16: when the consultation is over, an aide is available and the suggested
\* unit is not in the catalog or is full, the cycle does not mark the patient
\* TRANSFERE and gives it to no aide.
C16_RejetAtomique ==
    [][\A m \in Instants :
          ( /\ Cycle(m)
            /\ ConsultationEchue(m)
            /\ AideLibre(m)
            /\ ~UniteAccepte(SuggestionPour(docteur.patient_en_charge)) ) =>
              /\ pat'[docteur.patient_en_charge].statut # "TRANSFERE"
              /\ \A a \in DOMAIN aides_soignants :
                    aides_soignants'[a].patient_en_charge #
                        docteur.patient_en_charge]_vars

\* C17: every patient the department holds (a rejected one aside) has a room
\* reference, and is in the list of that room, exactly when its status is
\* EN_ATTENTE or EN_CONSULTATION; a patient of any other status is in no room.
C17_SalleSelonStatut ==
    \A p \in DOMAIN pat :
        ~Refuse(p) =>
            /\ pat[p].salle # AucuneSalle <=>
                   pat[p].statut \in {"EN_ATTENTE", "EN_CONSULTATION"}
            /\ pat[p].salle # AucuneSalle =>
                   \E i \in DOMAIN salles :
                       /\ salles[i].numero = pat[p].salle
                       /\ Dans(salles[i].patients, p)
            /\ pat[p].statut \notin {"EN_ATTENTE", "EN_CONSULTATION"} =>
                   \A i \in DOMAIN salles : ~Dans(salles[i].patients, p)

\* C18: in every state, also after modifier_capacite_salle has changed a
\* capacity, no room has more patients than its capacity.
C18_OccupationApresCapacite ==
    \A i \in DOMAIN salles : salles[i].capacite >= Len(salles[i].patients)

\* C19: every admitted patient that is no longer in the waiting list is the
\* doctor's patient in charge or is recorded in the transferred list.
C19_AucunPerdu ==
    \A p \in DOMAIN pat :
        (~Refuse(p) /\ ~Dans(patients_en_attente, p)) =>
            \/ docteur.patient_en_charge = p
            \/ Dans(patients_transferes, p)

\* C20: for a GRIS patient the suggestion is the configured home destination,
\* with priority NORMALE, whatever the patient's tags and whatever the units;
\* and a suggestion changes neither the units nor anything else of the state.
C20_SuggestionGris ==
    [][Suggerer =>
          /\ UNCHANGED <<etat, horloge, temps_virtuel, actions>>
          /\ resultat.gravite = "GRIS" =>
                /\ resultat'.unite = RegleGrisTransfert
                /\ resultat'.priorite = "NORMALE"]_vars

\* A GRIS patient tagged with a specialty that a unit of the catalog has was
\* sent home all the same.
C20_Witness ==
    /\ resultat.op = "suggerer"
    /\ resultat.gravite = "GRIS"
    /\ resultat.unite = RegleGrisTransfert
    /\ UniteSpecialite(unites, resultat.type_maladie) # 0

\* Unit u has a specialty equal, case aside, to one of the tags of tm.
Apparie(u, tm) ==
    \E k \in DOMAIN tm : \E j \in DOMAIN u.specialites :
        Minuscule(tm[k]) = Minuscule(u.specialites[j])

\* The name nom is that of the first unit of the catalog matching tm, or is
\* `defaut` when no unit matches.
PremierAppariement(nom, tm, defaut) ==
    IF \E i \in DOMAIN unites : Apparie(unites[i], tm)
    THEN \E i \in DOMAIN unites :
            /\ Apparie(unites[i], tm)
            /\ \A j \in 1..(i - 1) : ~Apparie(unites[j], tm)
            /\ nom = unites[i].nom
    ELSE nom = defaut

\* C21: for a ROUGE patient the suggestion always has priority IMMEDIATE; its
\* unit is the first unit, in configured order, with a specialty equal, case
\* aside, to one of the patient's tags, and the critical-care unit of the
\* special rules when no unit matches.
C21_SuggestionRouge ==
    [][(Suggerer /\ resultat.gravite = "ROUGE") =>
          /\ resultat'.priorite = "IMMEDIATE"
          /\ PremierAppariement(resultat'.unite, resultat.type_maladie,
                                RegleRougeTransfert)]_vars

\* A ROUGE patient tagged "Cardiaque" was sent to the unit whose specialty is
\* written "cardiaque", a unit matching another of its tags standing later in
\* the catalog.
C21_Witness ==
    /\ resultat.op = "suggerer"
    /\ resultat.gravite = "ROUGE"
    /\ resultat.priorite = "IMMEDIATE"
    /\ resultat.unite = "CARDIOLOGIE"
    /\ \E i, j \in DOMAIN unites :
          /\ i < j
          /\ unites[i].nom = "CARDIOLOGIE"
          /\ Apparie(unites[j], resultat.type_maladie)

\* C22: for a JAUNE or VERT patient the suggestion has priority NORMALE; its
\* unit is the first unit, in configured order, with a specialty matching one
\* of the patient's tags, and the default unit when no unit matches.
C22_SuggestionJauneVert ==
    [][(Suggerer /\ resultat.gravite \in {"JAUNE", "VERT"}) =>
          /\ resultat'.priorite = "NORMALE"
          /\ PremierAppariement(resultat'.unite, resultat.type_maladie,
                                UniteParDefaut)]_vars

\* A JAUNE or VERT patient none of whose tags matches a unit of a non-empty
\* catalog was sent to the default unit, which the catalog does not hold.
C22_Witness ==
    /\ resultat.op = "suggerer"
    /\ resultat.gravite \in {"JAUNE", "VERT"}
    /\ resultat.type_maladie # <<>>
    /\ unites # <<>>
    /\ resultat.unite = UniteParDefaut
    /\ resultat.priorite = "NORMALE"
    /\ \A i \in DOMAIN unites :
          unites[i].nom # UniteParDefaut /\ ~Apparie(unites[i], resultat.type_maladie)

\* The patients the department holds (rejected ones aside) whose status is st.
DeStatut(st) == {p \in DOMAIN pat : ~Refuse(p) /\ pat[p].statut = st}

\* C23: the counts of the metrics are the numbers of patients whose status is
\* EN_ATTENTE, EN_CONSULTATION and TRANSFERE.
C23_ComptesParStatut ==
    /\ calculer_metriques_instant.patients_attente =
           Cardinality(DeStatut("EN_ATTENTE"))
    /\ calculer_metriques_instant.patients_consultation =
           Cardinality(DeStatut("EN_CONSULTATION"))
    /\ calculer_metriques_instant.patients_transferes =
           Cardinality(DeStatut("TRANSFERE"))

\* C24: the steps of a cycle act in order within one call.  An aide released
\* in step 1 (none was available before the call) receives in step 2 the
\* patient whose consultation is over; and the doctor released in step 2
\* starts in step 4 the consultation of the head of the waiting list, the
\* transport being reported before the consultation.
C24_OrdreEtapes ==
    [][\A m \in Instants :
          Cycle(m) =>
              /\ ( /\ ConsultationEchue(m)
                   /\ PremierDisponible(aides_soignants) = 0
                   /\ AideLibre(m) ) =>
                     aides_soignants'[PremierDisponible(Liberer(aides_soignants, m))]
                         = [statut |-> "OCCUPE",
                            patient_en_charge |-> docteur.patient_en_charge,
                            fin_activite |-> m + DureeTransport]
              /\ ( /\ ConsultationEchue(m)
                   /\ AideLibre(m)
                   /\ patients_en_attente # <<>> ) =>
                     /\ docteur' =
                          [statut |-> "OCCUPE",
                           patient_en_charge |->
                               selectionner_prochain_patient(patients_en_attente),
                           fin_activite |-> m + DureeConsultation]
                     /\ \E k, l \in DOMAIN actions' :
                           /\ k < l
                           /\ actions'[k].type = "TRANSPORT"
                           /\ actions'[k].patient = docteur.patient_en_charge
                           /\ actions'[l].type = "CONSULTATION"]_vars

\* At minute 20 the only aide, busy with a first transport until then, took a
\* second patient, and the doctor started a third one in the same cycle.
C24_Witness ==
    /\ resultat.op = "cycle"
    /\ temps_virtuel = 20
    /\ Len(patients_transferes) >= 2
    /\ \E a \in DOMAIN aides_soignants :
          /\ aides_soignants[a].fin_activite = temps_virtuel + DureeTransport
          /\ aides_soignants[a].patient_en_charge =
                 patients_transferes[Len(patients_transferes)]
    /\ docteur.statut = "OCCUPE"
    /\ docteur.fin_activite = temps_virtuel + DureeConsultation
    /\ \E k, l \in DOMAIN actions :
          k < l /\ actions[k].type = "TRANSPORT" /\ actions[l].type = "CONSULTATION"

\* C25: a cycle that starts a consultation removes the selected patient from
\* the waiting list, sets it EN_CONSULTATION, and makes the doctor busy with it
\* until the time of the cycle plus the consultation length configured for the
\* patient's severity (5 minutes when none is configured).
C25_DureeConfiguree ==
    resultat.op = "cycle" =>
        \A k \in DOMAIN actions :
            actions[k].type = "CONSULTATION" =>
                /\ ~Dans(patients_en_attente, actions[k].patient)
                /\ pat[actions[k].patient].statut = "EN_CONSULTATION"
                /\ docteur = [statut |-> "OCCUPE",
                              patient_en_charge |-> actions[k].patient,
                              fin_activite |->
                                  temps_virtuel
                                  + duree_min(pat[actions[k].patient].gravite)]

\* What one cycle at time m does to the members of one roster whose activities
\* last d minutes: a member becoming busy is busy until m + d; a busy member
\* is untouched before the end of its activity; at the first cycle at or after
\* that end it is released, and is then either available with no patient or,
\* when reprise is allowed, busy anew with an activity started in this cycle.
SuitEcheance(staff, apres, m, d, reprise) ==
    \A i \in DOMAIN staff :
        /\ (staff[i].statut = "DISPONIBLE" /\ apres[i].statut = "OCCUPE") =>
               apres[i].fin_activite = m + d
        /\ (staff[i].statut = "OCCUPE" /\ m < staff[i].fin_activite) =>
               apres[i] = staff[i]
        /\ (staff[i].statut = "OCCUPE" /\ m >= staff[i].fin_activite) =>
               \/ apres[i] = PersonnelLibre
               \/ /\ reprise
                  /\ apres[i].statut = "OCCUPE"
                  /\ apres[i].fin_activite = m + d

\* An aide that starts a transport holds the patient the doctor was seeing.
AideTientPatient(staff, apres, m) ==
    \A i \in DOMAIN staff :
        (apres[i].statut = "OCCUPE" /\ apres[i] # staff[i]) =>
            /\ ConsultationEchue(m)
            /\ apres[i].patient_en_charge = docteur.patient_en_charge

\* C26 as stated: a nurse or aide made busy by a cycle (5 minutes for an
\* inspection, 15 for a transport, the aide holding the transported patient)
\* stays busy at every cycle before the end of the activity and is available,
\* with no patient, after the first cycle at or after that end.
C26_DisponibleAEcheance ==
    [][\A m \in Instants :
          Cycle(m) =>
              /\ SuitEcheance(infirmieres, infirmieres', m, DureeInspection, FALSE)
              /\ SuitEcheance(aides_soignants, aides_soignants', m,
                              DureeTransport, FALSE)
              /\ AideTientPatient(aides_soignants, aides_soignants', m)]_vars

\* C26, amended: the member released at the first cycle at or after the end of
\* its activity may be given a new activity by the later steps of that same
\* cycle; it is then busy until the time of that cycle plus the duration.
C26_LibereAEcheance ==
    [][\A m \in Instants :
          Cycle(m) =>
              /\ SuitEcheance(infirmieres, infirmieres', m, DureeInspection, TRUE)
              /\ SuitEcheance(aides_soignants, aides_soignants', m,
                              DureeTransport, TRUE)
              /\ AideTientPatient(aides_soignants, aides_soignants', m)]_vars

\* After a cycle the aide that carried a patient is available again with no
\* patient, while the nurse is busy with an inspection.
C26_Witness ==
    /\ resultat.op = "cycle"
    /\ patients_transferes # <<>>
    /\ \A a \in DOMAIN aides_soignants : aides_soignants[a] = PersonnelLibre
    /\ \E i \in DOMAIN infirmieres :
          /\ infirmieres[i].statut = "OCCUPE"
          /\ infirmieres[i].fin_activite = temps_virtuel + DureeInspection

\* The rooms up to room i that are due for an inspection at time m.
SallesDues(m, i) ==
    {k \in 1..i : m - salles[k].derniere_surveillance >= DelaiSurveillance}

\* The nurses available once step 1 of the cycle at time m has run.
InfirmieresLibres(m) ==
    {j \in DOMAIN infirmieres : Liberer(infirmieres, m)[j].statut = "DISPONIBLE"}

\* The n-th of them in roster order.
NiemeLibre(m, n) ==
    CHOOSE j \in InfirmieresLibres(m) :
        Cardinality({k \in InfirmieresLibres(m) : k <= j}) = n

\* The inspections a list of actions reports for nurse j.
InspectionsDe(acts, j) ==
    {k \in DOMAIN acts : acts[k].type = "INSPECTION" /\ acts[k].qui = j}

\* C27: in a cycle at time m the rooms not inspected for 15 minutes are taken
\* in order; the n-th of them gets the n-th available nurse, which becomes busy
\* until m + 5, and its last inspection becomes m; once no nurse is left the
\* due rooms keep their last inspection, as do the rooms that are not due; no
\* nurse gets two rooms and the nurses without a room are as step 1 left them.
C27_Surveillance ==
    [][\A m \in Instants :
          Cycle(m) =>
              /\ \A i \in DOMAIN salles :
                    IF /\ i \in SallesDues(m, i)
                       /\ Cardinality(SallesDues(m, i))
                              <= Cardinality(InfirmieresLibres(m))
                    THEN /\ salles'[i].derniere_surveillance = m
                         /\ \E j \in {NiemeLibre(m, Cardinality(SallesDues(m, i)))} :
                               /\ infirmieres'[j].statut = "OCCUPE"
                               /\ infirmieres'[j].fin_activite = m + DureeInspection
                               /\ \E k \in InspectionsDe(actions', j) :
                                     actions'[k].salle = salles[i].numero
                    ELSE salles'[i].derniere_surveillance
                             = salles[i].derniere_surveillance
              /\ \A j \in DOMAIN infirmieres :
                    /\ Cardinality(InspectionsDe(actions', j)) <= 1
                    /\ InspectionsDe(actions', j) = {} =>
                           infirmieres'[j] = Liberer(infirmieres, m)[j]]_vars

\* A cycle gave room 1 to the first nurse and room 2 to the second one.
C27_Witness ==
    /\ resultat.op = "cycle"
    /\ Len(infirmieres) = 2
    /\ \E k1, k2 \in DOMAIN actions :
          /\ k1 < k2
          /\ actions[k1] = Action("INSPECTION", 1, AucunPatient, 1, "")
          /\ actions[k2] = Action("INSPECTION", 2, AucunPatient, 2, "")
    /\ \A i \in DOMAIN salles : salles[i].derniere_surveillance = temps_virtuel
    /\ \A j \in DOMAIN infirmieres :
          infirmieres[j].fin_activite = temps_virtuel + DureeInspection

\* A cycle found room 2 due with the only nurse already taken by room 1.
C27_WitnessSansInfirmiere ==
    /\ resultat.op = "cycle"
    /\ Len(infirmieres) = 1
    /\ infirmieres[1].fin_activite = temps_virtuel + DureeInspection
    /\ salles[1].derniere_surveillance = temps_virtuel
    /\ temps_virtuel - salles[2].derniere_surveillance >= DelaiSurveillance

\* The step of the cycle that reports an action of the given type.
EtapeDe(type) ==
    IF type \in {"TRANSPORT", "ATTENTE_TRANSPORT"} THEN 2
    ELSE IF type = "INSPECTION" THEN 3 ELSE 4

\* C28: the list returned by a cycle names the state changes of that cycle in
\* step order (transport or waiting-for-transport, inspections in room order,
\* consultation), every nurse or aide whose state changed being named by one
\* of them; a cycle that returns an empty list has changed nothing.
C28_UneActionParChangement ==
    [][\A m \in Instants :
          Cycle(m) =>
              /\ \A k, l \in DOMAIN actions' :
                    k < l =>
                        /\ EtapeDe(actions'[k].type) <= EtapeDe(actions'[l].type)
                        /\ (actions'[k].type = "INSPECTION"
                              /\ actions'[l].type = "INSPECTION") =>
                                 actions'[k].salle < actions'[l].salle
              /\ \A j \in DOMAIN infirmieres :
                    infirmieres'[j] # infirmieres[j] =>
                        InspectionsDe(actions', j) # {}
              /\ \A a \in DOMAIN aides_soignants :
                    aides_soignants'[a] # aides_soignants[a] =>
                        \E k \in DOMAIN actions' :
                            actions'[k].type = "TRANSPORT" /\ actions'[k].qui = a
              /\ actions' = <<>> => etat' = etat]_vars

\* C29: retirer_patient(p) on a room holding p takes p out of that room and
\* clears the room of p, leaving the status of p, the other patients, the
\* other rooms and the waiting list as they were; on a room that does not hold
\* p it changes nothing.
C29_RetraitDeSalle ==
    [][\A s \in DOMAIN SallesConfig, p \in PatientIds :
          Retirer(s, p) =>
              IF Dans(salles[s].patients, p)
              THEN /\ ~Dans(salles'[s].patients, p)
                   /\ Len(salles'[s].patients) = Len(salles[s].patients) - 1
                   /\ \A q \in DOMAIN pat :
                         Dans(salles'[s].patients, q)
                             <=> (q # p /\ Dans(salles[s].patients, q))
                   /\ \A t \in DOMAIN salles : t # s => salles'[t] = salles[t]
                   /\ pat' = [pat EXCEPT ![p].salle = AucuneSalle]
                   /\ pat'[p].statut = pat[p].statut
                   /\ patients_en_attente' = patients_en_attente
              ELSE etat' = etat]_vars

\* A waiting patient was taken out of its room: it is in no room, has no room,
\* and is still waiting and in the waiting list.
C29_Witness ==
    /\ resultat.op = "retirer"
    /\ resultat.patient \in DOMAIN pat
    /\ pat[resultat.patient].salle = AucuneSalle
    /\ pat[resultat.patient].statut = "EN_ATTENTE"
    /\ Dans(patients_en_attente, resultat.patient)
    /\ \A s \in DOMAIN salles : ~Dans(salles[s].patients, resultat.patient)
    /\ \E s \in DOMAIN salles : salles[s].patients # <<>>

\* The patients in consultation.
EnConsultation == {p \in DOMAIN pat : pat[p].statut = "EN_CONSULTATION"}

\* C30: after any admissions and cycles at most one patient is in
\* consultation, the doctor is busy exactly when there is one, and that
\* patient is the one the doctor has in charge.
C30_UneConsultation ==
    /\ Cardinality(EnConsultation) <= 1
    /\ docteur.statut = "OCCUPE" <=> EnConsultation # {}
    /\ \A p \in EnConsultation : docteur.patient_en_charge = p

\* A cycle found the consultation over with no aide available: the doctor is
\* still busy with its patient while another patient waits.
C30_Witness ==
    /\ resultat.op = "cycle"
    /\ docteur.statut = "OCCUPE"
    /\ temps_virtuel >= docteur.fin_activite
    /\ docteur.patient_en_charge \in EnConsultation
    /\ \E k \in DOMAIN actions : actions[k].type = "ATTENTE_TRANSPORT"
    /\ patients_en_attente # <<>>
    /\ patients_transferes # <<>>

\* C31: when a cycle returns with the doctor available the waiting list is
\* empty: a cycle never leaves the doctor idle while a patient waits.
C31_DocteurJamaisOisif ==
    (resultat.op = "cycle" /\ docteur.statut = "DISPONIBLE") =>
        patients_en_attente = <<>>

\* A cycle ended a consultation and found nobody waiting: the doctor is
\* available, after having seen two patients.
C31_Witness ==
    /\ resultat.op = "cycle"
    /\ docteur.statut = "DISPONIBLE"
    /\ patients_en_attente = <<>>
    /\ \E k \in DOMAIN actions : actions[k].type = "TRANSPORT"
    /\ Cardinality({p \in DOMAIN pat : pat[p].statut = "TRANSFERE"}) >= 2

\* Where the loop settles.  With an aide: every patient is transferred, nobody
\* waits and the doctor is available.  With no aide: the doctor is busy if
\* anybody was admitted.
C32_Repos ==
    IF aides_soignants # <<>>
    THEN /\ \A p \in DOMAIN pat : pat[p].statut = "TRANSFERE"
         /\ patients_en_attente = <<>>
         /\ docteur.statut = "DISPONIBLE"
    ELSE pat # <<>> => docteur.statut = "OCCUPE"

\* C32: the loop running with no further admission.  With an aide in the
\* roster every waiting patient is eventually in consultation and later
\* transferred (a patient is transferred only from a consultation), so that
\* from some minute on nobody waits and the doctor is available.  With no aide
\* the doctor, once busy, stays busy with the same patient for ever.
C32_Vivacite ==
    /\ <>[]C32_Repos
    /\ [][\A p \in DOMAIN pat :
              (pat'[p].statut = "TRANSFERE" /\ pat[p].statut # "TRANSFERE") =>
                  pat[p].statut = "EN_CONSULTATION"]_vars
    /\ [][(aides_soignants = <<>> /\ docteur.statut = "OCCUPE") =>
              /\ docteur'.statut = "OCCUPE"
              /\ docteur'.patient_en_charge = docteur.patient_en_charge]_vars

\* With an aide, three patients were admitted and the loop has run until all
\* three are transferred, nobody waits and the doctor is available.
C32_Witness ==
    /\ aides_soignants # <<>>
    /\ resultat.op = "cycle"
    /\ Len(pat) = MaxPatients
    /\ \A p \in DOMAIN pat : pat[p].statut = "TRANSFERE"
    /\ patients_en_attente = <<>>
    /\ docteur.statut = "DISPONIBLE"

\* With no aide, the doctor is kept by its first patient, the consultation
\* over, while the others wait.
C32_WitnessSansAide ==
    /\ aides_soignants = <<>>
    /\ docteur.statut = "OCCUPE"
    /\ docteur.fin_activite <= temps_virtuel
    /\ \E k \in DOMAIN actions : actions[k].type = "ATTENTE_TRANSPORT"
    /\ Len(patients_en_attente) = MaxPatients - 1

\* C33: with a nurse in the roster and the loop running, a room whose last
\* inspection is 15 minutes old or more at the next cycle is eventually
\* inspected: an inspection of that room is eventually reported.
C33_RondeComplete ==
    \A i \in DOMAIN SallesRonde :
        (infirmieres # <<>>
            /\ temps_virtuel + 1 - salles[i].derniere_surveillance >= DelaiSurveillance)
        ~> (\E k \in DOMAIN actions :
               /\ actions[k].type = "INSPECTION"
               /\ actions[k].salle = salles[i].numero)

\* The place of a status on the path of a patient.
RangStatut(st) ==
    IF st = "EN_ATTENTE" THEN 1
    ELSE IF st = "EN_CONSULTATION" THEN 2
    ELSE IF st = "TRANSFERE" THEN 3 ELSE 4

\* C34: under admissions and cycles the status of a patient only moves
\* forward, one step at a time, along EN_ATTENTE, EN_CONSULTATION, TRANSFERE:
\* it never returns to an earlier status, so a patient is consulted at most once.
C34_StatutEnAvant ==
    [][\A p \in DOMAIN pat :
          \/ pat'[p].statut = pat[p].statut
          \/ RangStatut(pat'[p].statut) = RangStatut(pat[p].statut) + 1]_vars

\* C35: after admissions, cycles and explicit transfers no patient recorded in
\* patients_transferes is still in the waiting list, so that a later cycle
\* never takes a transferred patient into consultation nor has a unit count
\* it a second time.
C35_TransfereHorsFile ==
    /\ \A k \in DOMAIN patients_transferes :
          ~Dans(patients_en_attente, patients_transferes[k])
    /\ \A k, l \in DOMAIN patients_transferes :
          patients_transferes[k] = patients_transferes[l] => k = l
    /\ docteur.statut = "OCCUPE" =>
          ~Dans(patients_transferes, docteur.patient_en_charge)

\* The rooms that hold patient p.
SallesDe(p) == {i \in DOMAIN salles : Dans(salles[i].patients, p)}

\* C36: after any admissions, a patient already admitted being submitted
\* again included, no patient is in more than one room, nor more than once in
\* a room or in the waiting list.
C36_SansDoublon ==
    \A p \in DOMAIN pat :
        /\ Cardinality(SallesDe(p)) <= 1
        /\ \A i \in DOMAIN salles : Occurrences(salles[i].patients, p) <= 1
        /\ Occurrences(patients_en_attente, p) <= 1

====
